---- MODULE Spec2Model ----
(***************************************************************************)
(* QPPF signals service: the risk manager (position sizing, risk score,   *)
(* recommendation) and the live-trading route that consumes it.           *)
(*                                                                         *)
(* JavaScript numbers are modelled as exact extended rationals [n, d]:    *)
(* d > 0 is the finite value n/d in lowest terms, d = 0 is +Infinity      *)
(* (n = 1), -Infinity (n = -1) or NaN (n = 0).  Every comparison with NaN *)
(* is false, as in the source language.                                   *)
(***************************************************************************)
EXTENDS Integers, Sequences, FiniteSets, TLC

VARIABLES
    params,          \* RiskManager.params
    call,            \* inputs of a direct RiskManager.assessTrade call
    result,          \* the RiskAssessment that call returned, or NULL
    qppfAlgorithm,   \* api.ts global: algorithm instance present
    alpacaService,   \* api.ts global: broker service present
    riskManager,     \* api.ts global: risk manager present
    latestSignal,    \* api.ts global: latest signal or NULL
    pc,              \* position of the /execute-alpaca-trade handler
    account,         \* handler local: account fetched by the route
    positions,       \* handler local: positions fetched by the route
    riskAssessment,  \* handler local: assessment computed by the route
    gate,            \* handler local: what shouldExecuteTrade returned
    tradeSignal,     \* handler local: TradeSignal handed to executeTrade
    orders,          \* orders POSTed to the broker, in submission order
    response,        \* last HTTP response of the handler
    requests,        \* number of /execute-alpaca-trade requests started
    symbol,          \* QPPFAlgorithm.symbol (readonly, set by the constructor)
    state,           \* QPPFAlgorithm.state
    observed,        \* market data pushed to the histories since the last reset
    cycles,          \* number of generateSignal calls made
    isRunning,       \* api.ts global: polling requested
    loops,           \* position of each generateSignals loop /start spawned
    stale,           \* loops awaiting generateSignal() of a replaced instance
    signalOrigin     \* history: what last decided latestSignal (SignalOrigins)

vars == <<params, call, result, qppfAlgorithm, alpacaService, riskManager,
          latestSignal, pc, account, positions, riskAssessment, gate,
          tradeSignal, orders, response, requests, symbol, state, observed,
          cycles, isRunning, loops, stale, signalOrigin>>

algoVars == <<symbol, state, observed, cycles>>

loopVars == <<isRunning, loops, stale>>

riskVars == <<params, call, result>>

routeVars == <<qppfAlgorithm, alpacaService, riskManager, latestSignal,
               signalOrigin, pc, account, positions, riskAssessment, gate,
               tradeSignal, orders, response, requests>>

NULL == [null |-> TRUE]

-----------------------------------------------------------------------------
(* Numbers *)

Abs(x) == IF x < 0 THEN -x ELSE x

Sgn(x) == IF x > 0 THEN 1 ELSE IF x < 0 THEN -1 ELSE 0

\* The operators below bind their operands to values (x \in {p}) before
\* using them, so that an operand expression is evaluated once however
\* often the operator refers to it.
RECURSIVE GCD(_, _)
GCD(p, q) ==
    CHOOSE r \in { IF b = 0 THEN a ELSE GCD(b, a % b) :
                   a \in {p}, b \in {q} } : TRUE

Rat(p, q) ==
    LET Reduced(n, d, g) == [n |-> (Sgn(d) * n) \div g, d |-> Abs(d) \div g]
    IN  CHOOSE r \in
            { IF d = 0 THEN [n |-> Sgn(n), d |-> 0]
              ELSE CHOOSE v \in { Reduced(n, d, g) :
                                  g \in {GCD(Abs(n), Abs(d))} } : TRUE :
              n \in {p}, d \in {q} } : TRUE

Num(i) == [n |-> i, d |-> 1]

NaN == [n |-> 0, d |-> 0]

IsNaN(a) == a.d = 0 /\ a.n = 0

IsFinite(a) == a.d > 0

NumNeg(a) == [n |-> -a.n, d |-> a.d]

NumMul(p, q) ==
    LET Mul(a, b) ==
            IF a.d = 0 \/ b.d = 0 THEN [n |-> Sgn(a.n) * Sgn(b.n), d |-> 0]
            ELSE LET g1 == GCD(Abs(a.n), b.d)
                     g2 == GCD(Abs(b.n), a.d)
                 IN  [n |-> (a.n \div g1) * (b.n \div g2),
                      d |-> (a.d \div g2) * (b.d \div g1)]
    IN  CHOOSE r \in { Mul(a, b) : a \in {p}, b \in {q} } : TRUE

NumRecip(p) ==
    LET Recip(a) ==
            IF a.n > 0 THEN [n |-> a.d, d |-> a.n]
            ELSE IF a.n < 0 THEN [n |-> -a.d, d |-> -a.n]
            ELSE IF a.d > 0 THEN [n |-> 1, d |-> 0]
            ELSE NaN
    IN  CHOOSE r \in { Recip(a) : a \in {p} } : TRUE

NumDiv(a, b) == NumMul(a, NumRecip(b))

NumAdd(p, q) ==
    LET Add(a, b) ==
            IF a.d > 0 /\ b.d > 0
            THEN LET g == GCD(a.d, b.d)
                 IN  Rat(a.n * (b.d \div g) + b.n * (a.d \div g),
                         (a.d \div g) * b.d)
            ELSE IF a.d > 0 THEN b
            ELSE IF b.d > 0 THEN a
            ELSE IF a.n = b.n THEN a ELSE NaN
    IN  CHOOSE r \in { Add(a, b) : a \in {p}, b \in {q} } : TRUE

NumSub(a, b) == NumAdd(a, NumNeg(b))

NumLess(p, q) ==
    \E a \in {p}, b \in {q} :
        IF IsNaN(a) \/ IsNaN(b) THEN FALSE
        ELSE IF a.d > 0 /\ b.d > 0
        THEN LET g == GCD(a.d, b.d)
             IN  a.n * (b.d \div g) < b.n * (a.d \div g)
        ELSE IF a.d = 0 THEN a.n < 0 /\ ~(b.d = 0 /\ b.n < 0)
        ELSE b.n > 0

NumGreater(a, b) == NumLess(b, a)

NumLeq(a, b) == ~IsNaN(a) /\ ~IsNaN(b) /\ ~NumLess(b, a)

NumGeq(a, b) == NumLeq(b, a)

NumMax(p, q) ==
    LET Max(a, b) ==
            IF IsNaN(a) \/ IsNaN(b) THEN NaN
            ELSE IF NumLess(a, b) THEN b ELSE a
    IN  CHOOSE r \in { Max(a, b) : a \in {p}, b \in {q} } : TRUE

NumMin(p, q) ==
    LET Min(a, b) ==
            IF IsNaN(a) \/ IsNaN(b) THEN NaN
            ELSE IF NumLess(b, a) THEN b ELSE a
    IN  CHOOSE r \in { Min(a, b) : a \in {p}, b \in {q} } : TRUE

NumAbs(a) == [n |-> Abs(a.n), d |-> a.d]

NumFloor(a) == IF a.d > 0 THEN [n |-> a.n \div a.d, d |-> 1] ELSE a

-----------------------------------------------------------------------------
(* RiskManager *)

DefaultParams ==
    [maxPortfolioRisk |-> Rat(5, 100),
     maxTradeRisk     |-> Rat(2, 100),
     minConfidence    |-> Rat(60, 100),
     maxRiskScore     |-> Rat(50, 100),
     maxDrawdown      |-> Rat(15, 100),
     maxPositionCount |-> 10]

CalculateBasePositionSize(p, portfolioValue, confidence, currentPrice) ==
    NumDiv(NumMul(NumMul(portfolioValue, p.maxTradeRisk),
                  NumMax(Rat(1, 10), NumMin(Num(1), confidence))),
           currentPrice)

StrongFlow(uwSignals) ==
    uwSignals.hasUnusualFlow
    /\ NumGreater(NumAbs(uwSignals.sentimentScore), Rat(4, 10))

LargeTrades(uwSignals) == uwSignals.largeTradesCount >= 3

SentimentConflict(signal, uwSignals) ==
    signal.sentiment # uwSignals.dominantSentiment /\ uwSignals.hasUnusualFlow

LowStrength(signal) == NumLess(signal.strength, Rat(6, 10))

TimesIf(cond, factor, m) == IF cond THEN NumMul(m, factor) ELSE m

PushIf(cond, reason, reasons) == IF cond THEN Append(reasons, reason) ELSE reasons

RiskMultiplier(signal, uwSignals) ==
    NumMin(Rat(15, 10),
           TimesIf(LowStrength(signal), Rat(9, 10),
           TimesIf(SentimentConflict(signal, uwSignals), Rat(8, 10),
           TimesIf(LargeTrades(uwSignals), Rat(115, 100),
           TimesIf(StrongFlow(uwSignals), Rat(12, 10),
                   signal.confidence)))))

MultiplierReasons(signal, uwSignals, reasons) ==
    PushIf(LowStrength(signal), "Reduced for low signal strength",
    PushIf(SentimentConflict(signal, uwSignals),
           "Reduced for conflicting sentiment signals",
    PushIf(LargeTrades(uwSignals), "Boosted for large trades",
    PushIf(StrongFlow(uwSignals), "Boosted for strong unusual options flow",
           reasons))))

ApplyRiskMultipliers(baseSize, signal, uwSignals, reasons) ==
    [adjustedSize |-> NumMul(baseSize, RiskMultiplier(signal, uwSignals)),
     multiplier   |-> RiskMultiplier(signal, uwSignals),
     reasons      |-> MultiplierReasons(signal, uwSignals, reasons)]

RECURSIVE TotalPositionValue(_)
TotalPositionValue(ps) ==
    IF ps = <<>> THEN Num(0)
    ELSE NumAdd(TotalPositionValue(SubSeq(ps, 1, Len(ps) - 1)),
                NumAbs(NumMul(ps[Len(ps)].qty, ps[Len(ps)].currentPrice)))

CalculateCurrentPortfolioRisk(acct, ps) ==
    NumDiv(TotalPositionValue(ps), acct.portfolioValue)

\* Variant of PositionCountReached with a strict comparison; C6 fails on it.
PositionCountReached_Strict(p, ps) == Len(ps) > p.maxPositionCount

PositionCountReached(p, ps) == Len(ps) >= p.maxPositionCount

OverBuyingPower(size, acct, currentPrice) ==
    NumGreater(NumMul(size, currentPrice), acct.buyingPower)

\* Variant of BuyingPowerLimitedSize without the clamp; C3 fails on it.
BuyingPowerLimitedSize_NoClamp(size, acct, currentPrice) == size

\* Variant of BuyingPowerLimitedSize that always fills the buying power, so
\* that it can grow the size; C10 fails on it.
BuyingPowerLimitedSize_Fill(size, acct, currentPrice) ==
    NumDiv(acct.buyingPower, currentPrice)

BuyingPowerLimitedSize(size, acct, currentPrice) ==
    IF OverBuyingPower(size, acct, currentPrice)
    THEN NumDiv(acct.buyingPower, currentPrice)
    ELSE size

OverPortfolioRisk(p, adjustedSize, acct, ps, currentPrice) ==
    NumGreater(NumAdd(CalculateCurrentPortfolioRisk(acct, ps),
                      NumDiv(NumMul(adjustedSize, currentPrice),
                             acct.portfolioValue)),
               p.maxPortfolioRisk)

MaxNewRisk(p, acct, ps) ==
    NumSub(p.maxPortfolioRisk, CalculateCurrentPortfolioRisk(acct, ps))

\* Variant of PortfolioRiskLimitedSize that sizes to the whole ceiling instead
\* of the remaining room; C4 fails on it.
PortfolioRiskLimitedSize_WholeCeiling(p, adjustedSize, acct, ps, currentPrice) ==
    IF ~OverPortfolioRisk(p, adjustedSize, acct, ps, currentPrice)
    THEN adjustedSize
    ELSE IF NumLeq(MaxNewRisk(p, acct, ps), Num(0)) THEN Num(0)
    ELSE NumDiv(NumMul(p.maxPortfolioRisk, acct.portfolioValue), currentPrice)

PortfolioRiskLimitedSize(p, adjustedSize, acct, ps, currentPrice) ==
    IF ~OverPortfolioRisk(p, adjustedSize, acct, ps, currentPrice)
    THEN adjustedSize
    ELSE IF NumLeq(MaxNewRisk(p, acct, ps), Num(0)) THEN Num(0)
    ELSE NumDiv(NumMul(MaxNewRisk(p, acct, ps), acct.portfolioValue),
                currentPrice)

PortfolioRiskReasons(p, adjustedSize, acct, ps, currentPrice, reasons) ==
    IF ~OverPortfolioRisk(p, adjustedSize, acct, ps, currentPrice)
    THEN reasons
    ELSE IF NumLeq(MaxNewRisk(p, acct, ps), Num(0))
    THEN Append(reasons, "Portfolio risk limit reached")
    ELSE Append(reasons, "Reduced to stay within portfolio risk limit")

CheckPortfolioLimits(p, size, acct, ps, currentPrice, reasons) ==
    IF PositionCountReached(p, ps)
    THEN [size    |-> Num(0),
          reasons |-> Append(reasons, "Maximum position count reached")]
    ELSE [size    |-> NumMax(Num(0),
                             PortfolioRiskLimitedSize(
                                 p, BuyingPowerLimitedSize(size, acct, currentPrice),
                                 acct, ps, currentPrice)),
          reasons |-> PortfolioRiskReasons(
                          p, BuyingPowerLimitedSize(size, acct, currentPrice),
                          acct, ps, currentPrice,
                          PushIf(OverBuyingPower(size, acct, currentPrice),
                                 "Reduced to available buying power", reasons))]

GetMarketTimingRisk(now) ==
    IF (now.hour = 9 /\ now.minute < 45) \/ (now.hour = 15 /\ now.minute > 45)
    THEN Rat(3, 10)
    ELSE Rat(1, 10)

SumRiskFactors(f1, f2, f3, f4, f5) ==
    NumAdd(NumAdd(NumAdd(NumAdd(NumAdd(Num(0), f1), f2), f3), f4), f5)

CalculateRiskScore(p, signal, uwSignals, positionSize, acct, ps, now) ==
    NumMin(Num(1),
           SumRiskFactors(
               NumMul(NumSub(Num(1), signal.confidence), Rat(4, 10)),
               NumMul(NumMin(NumDiv(NumMul(positionSize, Num(450)),
                                    NumMul(acct.portfolioValue, p.maxTradeRisk)),
                             Num(1)),
                      Rat(3, 10)),
               NumMul(IF uwSignals.hasUnusualFlow
                         /\ signal.sentiment # uwSignals.dominantSentiment
                      THEN Rat(2, 10) ELSE Num(0),
                      Rat(15, 100)),
               NumMul(NumMin(NumDiv(Num(Len(ps)), Num(p.maxPositionCount)),
                             Num(1)),
                      Rat(1, 10)),
               NumMul(GetMarketTimingRisk(now), Rat(5, 100))))

\* Variant of Recommendation rejecting at confidence = minConfidence too; C8
\* fails on it.
Recommendation_RejectAtMin(p, confidence, riskScore, portfolioLimitedSize, basePositionSize) ==
    IF NumLeq(confidence, p.minConfidence) THEN "reject"
    ELSE IF NumGreater(riskScore, p.maxRiskScore) THEN "reject"
    ELSE IF NumLess(portfolioLimitedSize, NumMul(basePositionSize, Rat(5, 10)))
    THEN "reduce"
    ELSE "execute"

Recommendation(p, confidence, riskScore, portfolioLimitedSize, basePositionSize) ==
    IF NumLess(confidence, p.minConfidence) THEN "reject"
    ELSE IF NumGreater(riskScore, p.maxRiskScore) THEN "reject"
    ELSE IF NumLess(portfolioLimitedSize, NumMul(basePositionSize, Rat(5, 10)))
    THEN "reduce"
    ELSE "execute"

RecommendationReasons(p, confidence, riskScore, portfolioLimitedSize, basePositionSize, reasons) ==
    IF NumLess(confidence, p.minConfidence)
    THEN Append(reasons, "Confidence below minimum")
    ELSE IF NumGreater(riskScore, p.maxRiskScore)
    THEN Append(reasons, "Risk score exceeds maximum")
    ELSE IF NumLess(portfolioLimitedSize, NumMul(basePositionSize, Rat(5, 10)))
    THEN Append(reasons,
                "Position size significantly reduced due to risk limits")
    ELSE reasons

\* Steps 5 and the returned object of assessTrade.
MakeAssessment(p, signal, acct, currentPrice, basePositionSize, multiplier, portfolioLimitedSize, reasons, riskScore) ==
    [positionSize         |-> NumMax(Num(0), NumFloor(portfolioLimitedSize)),
     riskScore            |-> riskScore,
     maxPositionSize      |-> NumFloor(NumDiv(NumMul(acct.portfolioValue,
                                                     p.maxTradeRisk),
                                              currentPrice)),
     confidenceMultiplier |-> multiplier,
     riskAmount           |-> NumMul(portfolioLimitedSize, currentPrice),
     recommendation       |-> Recommendation(p, signal.confidence, riskScore,
                                             portfolioLimitedSize,
                                             basePositionSize),
     reasons              |-> RecommendationReasons(p, signal.confidence,
                                                    riskScore,
                                                    portfolioLimitedSize,
                                                    basePositionSize, reasons)]

\* Step 4 of assessTrade, given the results of steps 1-3.
AssessLimited(p, signal, uwSignals, acct, ps, currentPrice, now, basePositionSize, multiplier, lim) ==
    MakeAssessment(p, signal, acct, currentPrice, basePositionSize, multiplier,
                   lim.size, lim.reasons,
                   CalculateRiskScore(p, signal, uwSignals, lim.size, acct, ps,
                                      now))

\* Step 3 of assessTrade, given the results of steps 1-2.
AssessAdjusted(p, signal, uwSignals, acct, ps, currentPrice, now, basePositionSize, adj) ==
    AssessLimited(p, signal, uwSignals, acct, ps, currentPrice, now,
                  basePositionSize, adj.multiplier,
                  CheckPortfolioLimits(p, adj.adjustedSize, acct, ps,
                                       currentPrice, adj.reasons))

\* Step 2 of assessTrade, given the result of step 1.
AssessBase(p, signal, uwSignals, acct, ps, currentPrice, now, basePositionSize) ==
    AssessAdjusted(p, signal, uwSignals, acct, ps, currentPrice, now,
                   basePositionSize,
                   ApplyRiskMultipliers(basePositionSize, signal, uwSignals,
                                        <<>>))

AssessTrade(p, signal, uwSignals, acct, ps, currentPrice, now) ==
    AssessBase(p, signal, uwSignals, acct, ps, currentPrice, now,
               CalculateBasePositionSize(p, acct.portfolioValue,
                                         signal.confidence, currentPrice))

\* Variant of ShouldExecuteTrade that ignores the size; C1 fails on it.
ShouldExecuteTrade_IgnoresSize(assessment) ==
    assessment.recommendation = "execute"

ShouldExecuteTrade(assessment) ==
    assessment.recommendation = "execute"
    /\ NumGreater(assessment.positionSize, Num(0))

-----------------------------------------------------------------------------
(* Inputs of the direct assessTrade calls *)

MaxPositions == 10

Confidences == {Rat(0, 100), Rat(55, 100), Rat(60, 100), Rat(80, 100),
                Rat(95, 100)}

Strengths == {Rat(5, 10), Rat(8, 10)}

DominantSentiment(sentimentScore) ==
    IF NumGreater(sentimentScore, Rat(2, 10)) THEN "bullish"
    ELSE IF NumLess(sentimentScore, Rat(-2, 10)) THEN "bearish"
    ELSE "neutral"

FlowSignals ==
    { [sentimentScore    |-> s,
       largeTradesCount  |-> l,
       hasUnusualFlow    |-> f,
       dominantSentiment |-> DominantSentiment(s)] :
      s \in {Num(0), Rat(5, 10)}, l \in {0, 3}, f \in BOOLEAN }

Signals ==
    { [direction  |-> "LONG",
       confidence |-> c,
       strength   |-> st,
       sentiment  |-> se,
       symbol     |-> "SPY"] :
      c \in Confidences, st \in Strengths, se \in {"bullish", "neutral"} }

Accounts ==
    { [portfolioValue |-> pv, buyingPower |-> bp, tradingBlocked |-> tb] :
      pv \in {Num(0), Num(100000)},
      bp \in {Num(0), Num(1500), Num(200000)},
      tb \in BOOLEAN }

Position(qty, price) == [qty |-> Num(qty), currentPrice |-> Num(price)]

Repeat(n, x) == [i \in 1..n |-> x]

PositionLists ==
    { <<>>,
      <<Position(-40, 100)>>,
      <<Position(50, 100)>>,
      <<Position(60, 100)>>,
      Repeat(MaxPositions \div 2, Position(1, 100)),
      Repeat(MaxPositions, Position(1, 100)) }

Prices == {Num(100), Num(450)}

Clocks == {[hour |-> 9, minute |-> 30], [hour |-> 12, minute |-> 0]}

Calls ==
    { [signal |-> sg, uwSignals |-> uw, account |-> a, positions |-> ps,
       currentPrice |-> pr, now |-> t] :
      sg \in Signals, uw \in FlowSignals, a \in Accounts,
      ps \in PositionLists, pr \in Prices, t \in Clocks }

-----------------------------------------------------------------------------
(* Direct calls of the risk manager *)

MaxLoops == 2

Symbols == {"SPY", "QQQ"}

\* History of the global latestSignal, kept to state what the routes
\* promise about it: "none" before any signal and once /start follows a
\* reset, "reset" from a successful /reset until the next /signal or /start,
\* "current" for a signal the present algorithm instance generated,
\* "retained" for a signal older than the last /initialize answered 200,
\* and "orphaned" for a signal of an instance that only /initialize requests
\* answered 400 have replaced.
SignalOrigins == {"none", "reset", "current", "retained", "orphaned"}

\* QPPFAlgorithm.state as the constructor and reset() build it for the
\* symbol sym.  entryTime is an optional field: NULL stands for its absence.
NewState(sym) ==
    [symbol         |-> sym,
     positionSize   |-> Num(0),
     entryPrice     |-> Num(0),
     entryTime      |-> NULL,
     priceHistory   |-> <<>>,
     volumeHistory  |-> <<>>,
     tradesExecuted |-> 0,
     totalPnL       |-> Num(0),
     isActive       |-> FALSE]

\* The state of an algorithm constructed with the default symbol.
FreshState == NewState("SPY")

\* Variant of reset() that keeps the trade counter; C21 fails on it.
Reset_KeepsCounters == [NewState(symbol) EXCEPT !.tradesExecuted = state.tradesExecuted]

\* QPPFAlgorithm.reset(): a new state object built from this.symbol.
Reset == NewState(symbol)

AlgorithmIdle ==
    /\ symbol = "SPY" /\ state = FreshState /\ observed = <<>> /\ cycles = 0

LoopIdle ==
    /\ isRunning = FALSE /\ loops = [i \in 1..MaxLoops |-> "none"]
    /\ stale = {}

RouteIdle ==
    /\ qppfAlgorithm = FALSE /\ alpacaService = FALSE /\ riskManager = FALSE
    /\ latestSignal = NULL /\ pc = "idle" /\ account = NULL
    /\ signalOrigin = "none"
    /\ positions = <<>> /\ riskAssessment = NULL /\ gate = "none"
    /\ tradeSignal = NULL /\ orders = <<>> /\ response = "none" /\ requests = 0

InitRisk ==
    /\ params = DefaultParams
    /\ call \in Calls
    /\ result = NULL
    /\ RouteIdle
    /\ AlgorithmIdle
    /\ LoopIdle

AssessTradeCall ==
    /\ result = NULL
    /\ result' = AssessTrade(params, call.signal, call.uwSignals, call.account,
                             call.positions, call.currentPrice, call.now)
    /\ UNCHANGED <<params, call>>
    /\ UNCHANGED routeVars
    /\ UNCHANGED <<algoVars, loopVars>>

NextRisk == AssessTradeCall

SpecRisk == InitRisk /\ [][NextRisk]_vars

-----------------------------------------------------------------------------
(* Route layer: /initialize, /signal, /reset and /execute-alpaca-trade *)

MaxRequests == 2

\* Signals generateSignal can hand to the routes: sentiment is the flow's
\* dominant sentiment, and the error fallback is FLAT with zero confidence.
GeneratedSignals ==
    { [direction  |-> dir,
       confidence |-> c,
       strength   |-> Rat(8, 10),
       sentiment  |-> uw.dominantSentiment,
       symbol     |-> "SPY",
       uwSignals  |-> uw] :
      dir \in {"LONG", "SHORT", "FLAT"},
      c \in {Rat(55, 100), Rat(8, 10)},
      uw \in { u \in FlowSignals : u.hasUnusualFlow = (u.largeTradesCount = 3)
                                   /\ u.hasUnusualFlow
                                      = (u.sentimentScore # Num(0)) } }
    \cup
    { [direction  |-> "FLAT",
       confidence |-> Num(0),
       strength   |-> Num(0),
       sentiment  |-> "neutral",
       symbol     |-> "SPY",
       uwSignals  |-> [sentimentScore    |-> Num(0),
                       largeTradesCount  |-> 0,
                       hasUnusualFlow    |-> FALSE,
                       dominantSentiment |-> "neutral"]] }

BrokerAccounts ==
    { a \in Accounts : a.buyingPower = Num(200000) }

BrokerPositionLists == { <<>>, Repeat(MaxPositions, Position(1, 100)) }

BrokerPrices == {Num(100)}

Respond(r) ==
    /\ response' = r
    /\ pc' = "idle"

\* Bodies of /initialize requests: malformed JSON, or a configuration with
\* or without the Unusual Whales key, the two Alpaca keys and a symbol
\* ("" is a missing or empty symbol, for which 'SPY' is taken).
\* connected is the outcome of the Alpaca connection test (getAccount()
\* returning an account), which is made only when both Alpaca keys are given.
Configs ==
    { [malformed |-> TRUE, uwKey |-> FALSE, alpacaKeys |-> FALSE,
       symbol |-> "", connected |-> FALSE] }
    \cup
    { [malformed |-> FALSE, uwKey |-> k, alpacaKeys |-> a, symbol |-> sy,
       connected |-> c] :
      k \in BOOLEAN, a \in BOOLEAN, sy \in {"", "QQQ"}, c \in BOOLEAN }

\* HTTP status the /initialize handler answers with.
InitializeResponse(cfg) ==
    IF cfg.malformed THEN 500
    ELSE IF ~cfg.uwKey THEN 400
    ELSE IF cfg.alpacaKeys /\ ~cfg.connected THEN 400
    ELSE 200

\* The globals are assigned before the connection test is awaited, and
\* nothing is assigned after it.  A loop awaiting generateSignal() of the
\* replaced instance keeps running on that instance.
Initialize(cfg) ==
    IF cfg.malformed \/ ~cfg.uwKey
    THEN /\ UNCHANGED <<qppfAlgorithm, alpacaService, riskManager, params>>
         /\ UNCHANGED <<symbol, state, observed, stale, signalOrigin>>
    ELSE /\ qppfAlgorithm' = TRUE
         /\ signalOrigin' =
               (IF signalOrigin \in {"none", "reset"} THEN signalOrigin
                ELSE IF InitializeResponse(cfg) = 200 THEN "retained"
                ELSE IF signalOrigin = "current" THEN "orphaned"
                ELSE signalOrigin)
         /\ symbol' = (IF cfg.symbol = "" THEN "SPY" ELSE cfg.symbol)
         /\ state' = NewState(symbol')
         /\ observed' = <<>>
         /\ stale' = stale \cup {i \in DOMAIN loops : loops[i] = "generating"}
         /\ IF cfg.alpacaKeys
            THEN /\ alpacaService' = TRUE
                 /\ riskManager' = TRUE
                 /\ params' = DefaultParams
            ELSE UNCHANGED <<alpacaService, riskManager, params>>

InitializeRequest(cfg) ==
    /\ Initialize(cfg)
    /\ UNCHANGED <<call, result, latestSignal, pc, account, positions,
                   riskAssessment, gate, tradeSignal, orders, response,
                   requests>>
    /\ UNCHANGED <<cycles, isRunning, loops>>

InitializeRoute == \E cfg \in Configs : InitializeRequest(cfg)

SignalRoute ==
    /\ qppfAlgorithm
    /\ latestSignal' \in GeneratedSignals
    /\ signalOrigin' = "current"
    /\ UNCHANGED <<params, call, result, qppfAlgorithm, alpacaService,
                   riskManager, pc, account, positions, riskAssessment, gate,
                   tradeSignal, orders, response, requests>>
    /\ UNCHANGED <<algoVars, loopVars>>

ResetRoute ==
    /\ qppfAlgorithm
    /\ latestSignal' = NULL
    /\ signalOrigin' = "reset"
    /\ UNCHANGED <<params, call, result, qppfAlgorithm, alpacaService,
                   riskManager, pc, account, positions, riskAssessment, gate,
                   tradeSignal, orders, response, requests>>
    /\ isRunning' = FALSE
    /\ state' = Reset
    /\ observed' = <<>>
    /\ UNCHANGED <<symbol, cycles, loops, stale>>

\* Entry of the handler up to its first await (alpacaService.getAccount()).
ExecuteAlpacaTradeStart ==
    /\ pc = "idle"
    /\ requests < MaxRequests
    /\ requests' = requests + 1
    /\ account' = NULL /\ positions' = <<>> /\ riskAssessment' = NULL
    /\ gate' = "none" /\ tradeSignal' = NULL
    /\ IF ~(qppfAlgorithm /\ alpacaService /\ riskManager)
       THEN Respond("400 not initialized")
       ELSE IF latestSignal = NULL
       THEN Respond("400 no signal")
       ELSE /\ pc' = "getAccount"
            /\ response' = "none"
    /\ UNCHANGED <<params, call, result, qppfAlgorithm, alpacaService,
                   riskManager, latestSignal, signalOrigin, orders>>
    /\ UNCHANGED <<algoVars, loopVars>>

\* getAccount() resolved: null ends the request with a 500 result.
ExecuteAlpacaTradeAccount ==
    /\ pc = "getAccount"
    /\ \E a \in BrokerAccounts \cup {NULL} :
          IF a = NULL
          THEN /\ Respond("500 no account")
               /\ UNCHANGED account
          ELSE /\ account' = a
               /\ pc' = "getPositions"
               /\ UNCHANGED response
    /\ UNCHANGED <<params, call, result, qppfAlgorithm, alpacaService,
                   riskManager, latestSignal, signalOrigin, positions, riskAssessment, gate,
                   tradeSignal, orders, requests>>
    /\ UNCHANGED <<algoVars, loopVars>>

\* getPositions() resolved; the argument of getCurrentPrice dereferences
\* latestSignal, which throws into the handler's catch when it is null.
ExecuteAlpacaTradePositions ==
    /\ pc = "getPositions"
    /\ \E ps \in BrokerPositionLists :
          IF latestSignal = NULL
          THEN /\ Respond("500 exception")
               /\ UNCHANGED positions
          ELSE /\ positions' = ps
               /\ pc' = "getCurrentPrice"
               /\ UNCHANGED response
    /\ UNCHANGED <<params, call, result, qppfAlgorithm, alpacaService,
                   riskManager, latestSignal, signalOrigin, account, riskAssessment, gate,
                   tradeSignal, orders, requests>>
    /\ UNCHANGED <<algoVars, loopVars>>

TradeSignalOf(signal, assessment) ==
    [symbol    |-> signal.symbol,
     direction |-> IF signal.direction = "LONG" THEN "long" ELSE "short",
     quantity  |-> assessment.positionSize,
     orderType |-> "market"]

\* getCurrentPrice() resolved; assessTrade, the shouldExecuteTrade gate and
\* the call of executeTrade up to its own first await run without yielding.
ExecuteAlpacaTradeAssess ==
    /\ pc = "getCurrentPrice"
    /\ \E price \in BrokerPrices \cup {NULL}, now \in Clocks :
          IF price = NULL
          THEN /\ Respond("500 no price")
               /\ UNCHANGED <<riskAssessment, gate, tradeSignal>>
          ELSE IF latestSignal = NULL
          THEN /\ Respond("500 exception")
               /\ UNCHANGED <<riskAssessment, gate, tradeSignal>>
          ELSE /\ riskAssessment' =
                      AssessTrade(params, latestSignal, latestSignal.uwSignals,
                                  account, positions, price, now)
               /\ IF ~ShouldExecuteTrade(riskAssessment')
                  THEN /\ gate' = "false"
                       /\ Respond("rejected by risk management")
                       /\ UNCHANGED tradeSignal
                  ELSE /\ gate' = "true"
                       /\ tradeSignal' = TradeSignalOf(latestSignal,
                                                       riskAssessment')
                       /\ pc' = "executeTrade.getAccount"
                       /\ UNCHANGED response
    /\ UNCHANGED <<params, call, result, qppfAlgorithm, alpacaService,
                   riskManager, latestSignal, signalOrigin, account, positions, orders,
                   requests>>
    /\ UNCHANGED <<algoVars, loopVars>>

\* executeTrade: pre-trade validation on a freshly fetched account.
ExecuteTradeValidate ==
    /\ pc = "executeTrade.getAccount"
    /\ \E a \in BrokerAccounts \cup {NULL} :
          IF a = NULL
          THEN Respond("trade failed: no account")
          ELSE IF a.tradingBlocked
          THEN Respond("trade failed: trading blocked")
          ELSE IF tradeSignal.direction = "long"
                  /\ NumGreater(NumMul(tradeSignal.quantity, Num(0)),
                                a.buyingPower)
          THEN Respond("trade failed: insufficient buying power")
          ELSE /\ pc' = "executeTrade.post"
               /\ UNCHANGED response
    /\ UNCHANGED <<params, call, result, qppfAlgorithm, alpacaService,
                   riskManager, latestSignal, signalOrigin, account, positions,
                   riskAssessment, gate, tradeSignal, orders, requests>>
    /\ UNCHANGED <<algoVars, loopVars>>

\* executeTrade: POST /v2/orders resolved.
ExecuteTradeSubmit ==
    /\ pc = "executeTrade.post"
    /\ \E accepted \in BOOLEAN :
          IF accepted
          THEN /\ orders' = Append(orders,
                                   [symbol |-> tradeSignal.symbol,
                                    side   |-> IF tradeSignal.direction = "long"
                                               THEN "buy" ELSE "sell",
                                    qty    |-> tradeSignal.quantity])
               /\ Respond("trade executed")
          ELSE /\ UNCHANGED orders
               /\ Respond("trade failed: order submission")
    /\ UNCHANGED <<params, call, result, qppfAlgorithm, alpacaService,
                   riskManager, latestSignal, signalOrigin, account, positions,
                   riskAssessment, gate, tradeSignal, requests>>
    /\ UNCHANGED <<algoVars, loopVars>>

Init ==
    /\ params = DefaultParams
    /\ call = NULL
    /\ result = NULL
    /\ RouteIdle
    /\ AlgorithmIdle
    /\ LoopIdle

Next ==
    \/ InitializeRoute
    \/ SignalRoute
    \/ ResetRoute
    \/ ExecuteAlpacaTradeStart
    \/ ExecuteAlpacaTradeAccount
    \/ ExecuteAlpacaTradePositions
    \/ ExecuteAlpacaTradeAssess
    \/ ExecuteTradeValidate
    \/ ExecuteTradeSubmit

Spec == Init /\ [][Next]_vars

-----------------------------------------------------------------------------
(* Claims about RiskManager.assessTrade, checked under SpecRisk *)

Assessed == result # NULL

CallBase ==
    CalculateBasePositionSize(params, call.account.portfolioValue,
                              call.signal.confidence, call.currentPrice)

CallAdjusted ==
    ApplyRiskMultipliers(CallBase, call.signal, call.uwSignals, <<>>)

CallBuyingPowerLimited ==
    BuyingPowerLimitedSize(CallAdjusted.adjustedSize, call.account,
                           call.currentPrice)

CallLimited ==
    CheckPortfolioLimits(params, CallAdjusted.adjustedSize, call.account,
                         call.positions, call.currentPrice, CallAdjusted.reasons)

CallCurrentRisk == CalculateCurrentPortfolioRisk(call.account, call.positions)

CallBuyingPowerBinds ==
    /\ ~PositionCountReached(params, call.positions)
    /\ OverBuyingPower(CallAdjusted.adjustedSize, call.account,
                       call.currentPrice)

CallPortfolioRiskBinds ==
    /\ ~PositionCountReached(params, call.positions)
    /\ OverPortfolioRisk(params, CallBuyingPowerLimited, call.account,
                         call.positions, call.currentPrice)

\* C2 (as claimed): an assessment with recommendation reject never has
\* positionSize > 0.
C2_RejectHasZeroSize ==
    Assessed /\ result.recommendation = "reject"
        => ~NumGreater(result.positionSize, Num(0))

\* C3: the returned positionSize never needs more capital than the
\* account's buying power: positionSize * currentPrice <= buyingPower.
C3_WithinBuyingPower ==
    Assessed => NumLeq(NumMul(result.positionSize, call.currentPrice),
                       call.account.buyingPower)

C3_Witness ==
    /\ Assessed
    /\ CallBuyingPowerBinds
    /\ NumGreater(result.positionSize, Num(0))

TotalExposure ==
    NumDiv(NumAdd(TotalPositionValue(call.positions),
                  NumMul(result.positionSize, call.currentPrice)),
           call.account.portfolioValue)

\* C4 (as claimed): for all inputs (existing exposure + positionSize *
\* currentPrice) / portfolioValue <= maxPortfolioRisk, and the size is zero
\* when existing exposure is at or over the ceiling.
C4_ExposureWithinCeilingAlways ==
    Assessed =>
        /\ NumLeq(TotalExposure, params.maxPortfolioRisk)
        /\ NumGeq(CallCurrentRisk, params.maxPortfolioRisk)
               => result.positionSize = Num(0)

\* C4 (amended): whenever the existing exposure is at most the ceiling, the
\* exposure including the new trade is at most the ceiling; whenever the
\* existing exposure is at or over the ceiling, the new size is zero.
C4_ExposureWithinCeiling ==
    Assessed =>
        /\ NumLeq(CallCurrentRisk, params.maxPortfolioRisk)
               => NumLeq(TotalExposure, params.maxPortfolioRisk)
        /\ NumGeq(CallCurrentRisk, params.maxPortfolioRisk)
               => result.positionSize = Num(0)

C4_Witness ==
    /\ Assessed
    /\ CallPortfolioRiskBinds
    /\ NumGreater(CallCurrentRisk, Num(0))
    /\ NumGreater(result.positionSize, Num(0))

\* C6: with the open-position count at or above maxPositionCount the
\* assessment has positionSize 0 and a maximum-position-count reason,
\* whatever the confidence and the other inputs.
C6_PositionCountForcesZero ==
    Assessed /\ Len(call.positions) >= params.maxPositionCount
        => /\ result.positionSize = Num(0)
           /\ \E i \in DOMAIN result.reasons :
                  result.reasons[i] = "Maximum position count reached"

C6_Witness ==
    /\ Assessed
    /\ Len(call.positions) >= params.maxPositionCount
    /\ NumGeq(call.signal.confidence, params.minConfidence)
    /\ NumGreater(CallAdjusted.adjustedSize, Num(1))
    /\ NumGreater(call.account.buyingPower, Num(0))

PolicyLimitViolated ==
    \/ CallBuyingPowerBinds
    \/ CallPortfolioRiskBinds
    \/ call.account.tradingBlocked

\* C7 (as claimed): whenever a policy limit is violated (portfolio risk
\* ceiling, buying power, trading blocked) the assessment recommends reject
\* or reduce and carries a non-empty reasons list.
C7_PolicyViolationRejectsOrReduces ==
    Assessed /\ PolicyLimitViolated
        => /\ result.recommendation \in {"reject", "reduce"}
           /\ result.reasons # <<>>

\* C8: the recommendation is reject if confidence < minConfidence, else
\* reject if riskScore > maxRiskScore, else reduce if the portfolio-limited
\* size is below half the unclamped base size, else execute.
C8_RecommendationOrder ==
    Assessed =>
        /\ result.recommendation \in {"execute", "reduce", "reject"}
        /\ result.recommendation =
             IF NumLess(call.signal.confidence, params.minConfidence)
             THEN "reject"
             ELSE IF NumGreater(result.riskScore, params.maxRiskScore)
             THEN "reject"
             ELSE IF NumLess(NumMul(NumDiv(result.riskAmount, call.currentPrice),
                                    Num(2)),
                             CallBase)
             THEN "reduce"
             ELSE "execute"

C8_Witness ==
    /\ Assessed
    /\ NumGeq(call.signal.confidence, params.minConfidence)
    /\ NumLeq(result.riskScore, params.maxRiskScore)
    /\ NumGreater(CallLimited.size, Num(0))
    /\ result.recommendation = "reduce"

ClaimedMultiplier ==
    NumMin(Rat(15, 10),
           TimesIf(LowStrength(call.signal), Rat(9, 10),
           TimesIf(SentimentConflict(call.signal, call.uwSignals), Rat(8, 10),
           TimesIf(LargeTrades(call.uwSignals), Rat(115, 100),
           TimesIf(StrongFlow(call.uwSignals), Rat(12, 10), Num(1))))))

\* C9 (as claimed): the size before portfolio limits is base * M, with M the
\* product of the applicable factors capped at 1.5 and M = 1 when none
\* applies.
C9_AdjustedIsBaseTimesFactors ==
    Assessed =>
        /\ CallAdjusted.adjustedSize = NumMul(CallBase, ClaimedMultiplier)
        /\ result.confidenceMultiplier = ClaimedMultiplier

\* C10: the portfolio-limit clamps only shrink: the size after the buying
\* power clamp is at most the size passed in, the size checkPortfolioLimits
\* returns is >= 0 and at most that, and so is the final positionSize.
C10_ClampsOnlyShrink ==
    Assessed =>
        /\ NumLeq(Num(0), CallLimited.size)
        /\ NumLeq(CallLimited.size, CallAdjusted.adjustedSize)
        /\ ~PositionCountReached(params, call.positions)
               => /\ NumLeq(CallBuyingPowerLimited, CallAdjusted.adjustedSize)
                  /\ NumLeq(CallLimited.size, CallBuyingPowerLimited)
        /\ NumMul(CallLimited.size, call.currentPrice) = result.riskAmount
        /\ NumLeq(Num(0), result.positionSize)
        /\ NumLeq(result.positionSize, CallAdjusted.adjustedSize)

C10_Witness ==
    /\ Assessed
    /\ CallBuyingPowerBinds
    /\ CallPortfolioRiskBinds
    /\ NumGreater(CallLimited.size, Num(0))
-----------------------------------------------------------------------------
(* Claims about the live-trading route, checked under Spec *)

PassesGate(assessment) ==
    /\ assessment # NULL
    /\ assessment.recommendation = "execute"
    /\ NumGreater(assessment.positionSize, Num(0))

\* C1: shouldExecuteTrade is true exactly when the recommendation is execute
\* and positionSize > 0; the route submits an order only after it returned
\* true for the assessment just computed (and for that assessment's size),
\* and never after it returned false.
C1_OrderOnlyAfterGate ==
    [][ /\ gate' # "none" => (gate' = "true" <=> PassesGate(riskAssessment'))
        /\ orders' # orders
               => /\ gate = "true"
                  /\ PassesGate(riskAssessment)
                  /\ riskAssessment' = riskAssessment
                  /\ orders' = Append(orders, orders'[Len(orders')])
                  /\ orders'[Len(orders')].qty = riskAssessment.positionSize
      ]_vars

C1_Witness ==
    /\ orders # <<>>
    /\ gate = "true"
    /\ response = "trade executed"
    /\ orders[Len(orders)].qty = riskAssessment.positionSize

\* C5 (as claimed): when the fetched account has tradingBlocked, no
\* assessment passes shouldExecuteTrade, the request does not get past the
\* gate, and it ends in a result.
C5_BlockedAccountRejectsAll ==
    account # NULL /\ account.tradingBlocked
        => /\ ~PassesGate(riskAssessment)
           /\ gate # "true"
           /\ response # "500 exception"
-----------------------------------------------------------------------------
(* Claims about RiskManager.calculateRiskScore, checked under SpecRisk *)

ClaimedPositionRisk ==
    NumMin(NumDiv(NumMul(CallLimited.size, call.currentPrice),
                  NumMul(call.account.portfolioValue, params.maxTradeRisk)),
           Num(1))

ClaimedRiskScore ==
    SumRiskFactors(
        NumMul(NumSub(Num(1), call.signal.confidence), Rat(4, 10)),
        NumMul(ClaimedPositionRisk, Rat(3, 10)),
        NumMul(IF call.uwSignals.hasUnusualFlow
                  /\ call.signal.sentiment # call.uwSignals.dominantSentiment
               THEN Num(1) ELSE Num(0),
               Rat(15, 100)),
        NumMul(NumMin(NumDiv(Num(Len(call.positions)),
                             Num(params.maxPositionCount)),
                      Num(1)),
               Rat(1, 10)),
        NumMul(GetMarketTimingRisk(call.now), Rat(5, 100)))

\* C11 (as claimed): riskScore is the weighted sum with the position value
\* taken at the price of the trade being assessed and a conflict flag of 1.
C11_RiskScoreIsWeightedSum ==
    Assessed => result.riskScore = ClaimedRiskScore

RiskScoreAt(confidence, size, count) ==
    CalculateRiskScore(params,
                       [call.signal EXCEPT !.confidence = confidence],
                       call.uwSignals, size, call.account,
                       Repeat(count, Position(1, 100)), call.now)

SizeSamples == {Num(0), Rat(5, 2), Num(20)}

\* C12 (as claimed): for confidence in [0, 0.95] riskScore lies in [0, 1],
\* does not increase with confidence, and does not decrease with the
\* resulting size or the open-position count.
C12_RiskScoreBoundedMonotone ==
    Assessed =>
        /\ NumLeq(Num(0), result.riskScore)
        /\ NumLeq(result.riskScore, Num(1))
        /\ \A c1 \in Confidences, c2 \in Confidences,
              s1 \in SizeSamples, s2 \in SizeSamples,
              n1 \in {0, 5}, n2 \in {5, 12} :
              NumLeq(c1, c2) /\ NumLeq(s1, s2)
                  => /\ NumGeq(RiskScoreAt(c1, s1, n1), RiskScoreAt(c2, s1, n1))
                     /\ NumLeq(RiskScoreAt(c1, s1, n1), RiskScoreAt(c1, s2, n1))
                     /\ NumLeq(RiskScoreAt(c1, s1, n1), RiskScoreAt(c1, s1, n2))
-----------------------------------------------------------------------------
(* QPPFAlgorithm: confidence, direction, strength *)

\* Truthiness of an optional number: null, NaN and 0 are falsy.
Truthy(x) == x # NULL /\ ~IsNaN(x) /\ x # Num(0)

AddIf(cond, boost, c) == IF cond THEN NumAdd(c, boost) ELSE c

SentimentBoost(uwSignals, c) ==
    IF NumGreater(NumAbs(uwSignals.sentimentScore), Rat(5, 10))
    THEN NumAdd(c, Rat(2, 10))
    ELSE IF NumGreater(NumAbs(uwSignals.sentimentScore), Rat(3, 10))
    THEN NumAdd(c, Rat(1, 10))
    ELSE c

HasZeroGammaLevel(gexData) ==
    gexData # NULL /\ Truthy(gexData.zeroGammaLevel)

PriceVsZGL(marketData, gexData) ==
    NumSub(marketData.price, gexData.zeroGammaLevel)

FarFromZGL(marketData, gexData) ==
    /\ HasZeroGammaLevel(gexData)
    /\ NumGreater(NumDiv(NumAbs(PriceVsZGL(marketData, gexData)),
                         gexData.zeroGammaLevel),
                  Rat(2, 100))

GexAligned(marketData, gexData) ==
    /\ HasZeroGammaLevel(gexData)
    /\ \/ /\ NumGreater(gexData.totalGEX, Num(0))
          /\ NumLess(PriceVsZGL(marketData, gexData), Num(0))
       \/ /\ NumLess(gexData.totalGEX, Num(0))
          /\ NumGreater(PriceVsZGL(marketData, gexData), Num(0))

LowVolume(marketData) == NumLess(marketData.volume, Num(1000000))

\* Variant of CalculateConfidence without the final cap; C16 fails on it.
CalculateConfidence_NoCap(uwSignals, marketData, gexData) ==
    AddIf(GexAligned(marketData, gexData), Rat(5, 100),
    AddIf(FarFromZGL(marketData, gexData), Rat(1, 10),
    AddIf(uwSignals.recentAlerts > 5, Rat(1, 10),
    TimesIf(LowVolume(marketData), Rat(8, 10),
    AddIf(uwSignals.largeTradesCount > 2, Rat(15, 100),
    SentimentBoost(uwSignals,
    AddIf(uwSignals.hasUnusualFlow, Rat(3, 10), Rat(5, 10))))))))

CalculateConfidence(uwSignals, marketData, gexData) ==
    NumMin(Rat(95, 100),
        AddIf(GexAligned(marketData, gexData), Rat(5, 100),
        AddIf(FarFromZGL(marketData, gexData), Rat(1, 10),
        AddIf(uwSignals.recentAlerts > 5, Rat(1, 10),
        TimesIf(LowVolume(marketData), Rat(8, 10),
        AddIf(uwSignals.largeTradesCount > 2, Rat(15, 100),
        SentimentBoost(uwSignals,
        AddIf(uwSignals.hasUnusualFlow, Rat(3, 10), Rat(5, 10)))))))))

Vote(cond) == IF cond THEN 1 ELSE 0

SpreadPercentage(marketData) ==
    NumMul(NumDiv(NumSub(marketData.ask, marketData.bid), marketData.price),
           Num(100))

\* recentPrices[recentPrices.length - 1] - recentPrices[0] of slice(-3).
PriceTrend(priceHistory) ==
    NumSub(priceHistory[Len(priceHistory)],
           priceHistory[Len(priceHistory) - 2])

BullishFactors(uwSignals, marketData, gexData, hour, priceHistory) ==
    Vote(uwSignals.bullishCount > uwSignals.bearishCount)
    + Vote(NumGreater(uwSignals.avgPremium, Num(15000))
           /\ uwSignals.totalAlerts > 30)
    + Vote(HasZeroGammaLevel(gexData)
           /\ NumGreater(marketData.price, gexData.zeroGammaLevel))
    + Vote(gexData # NULL
           /\ NumGreater(gexData.callGEX, NumAbs(gexData.putGEX)))
    + Vote(NumGreater(marketData.volume, Num(30000000)))
    + Vote(NumLess(SpreadPercentage(marketData), Rat(1, 100)))
    + Vote(hour >= 14 /\ hour <= 20)
    + Vote(Len(priceHistory) >= 3
           /\ NumGreater(PriceTrend(priceHistory), Num(0)))

BearishFactors(uwSignals, marketData, gexData, priceHistory) ==
    Vote(~(uwSignals.bullishCount > uwSignals.bearishCount)
         /\ uwSignals.bearishCount > uwSignals.bullishCount)
    + Vote(HasZeroGammaLevel(gexData)
           /\ ~NumGreater(marketData.price, gexData.zeroGammaLevel)
           /\ NumLess(marketData.price, gexData.zeroGammaLevel))
    + Vote(gexData # NULL
           /\ ~NumGreater(gexData.callGEX, NumAbs(gexData.putGEX))
           /\ NumGreater(NumAbs(gexData.putGEX), gexData.callGEX))
    + Vote(Len(priceHistory) >= 3
           /\ ~NumGreater(PriceTrend(priceHistory), Num(0))
           /\ NumLess(PriceTrend(priceHistory), Num(0)))

\* Variant of VoteDirection that lets a tie go LONG; C14 fails on it.
VoteDirection_TieGoesLong(bullishFactors, bearishFactors) ==
    IF bullishFactors >= 2 /\ bullishFactors >= bearishFactors THEN "LONG"
    ELSE IF bearishFactors >= 2 /\ bearishFactors > bullishFactors THEN "SHORT"
    ELSE "FLAT"

VoteDirection(bullishFactors, bearishFactors) ==
    IF bullishFactors >= 2 /\ bullishFactors > bearishFactors THEN "LONG"
    ELSE IF bearishFactors >= 2 /\ bearishFactors > bullishFactors THEN "SHORT"
    ELSE "FLAT"

\* Variant of CalculateDirection without the sentiment override; C13 fails
\* on it.
CalculateDirection_VotesOnly(uwSignals, marketData, gexData, hour, priceHistory) ==
    VoteDirection(
        BullishFactors(uwSignals, marketData, gexData, hour, priceHistory),
        BearishFactors(uwSignals, marketData, gexData, priceHistory))

CalculateDirection(uwSignals, marketData, gexData, hour, priceHistory) ==
    IF NumGreater(uwSignals.sentimentScore, Rat(4, 10)) THEN "LONG"
    ELSE IF NumLess(uwSignals.sentimentScore, Rat(-4, 10)) THEN "SHORT"
    ELSE VoteDirection(
             BullishFactors(uwSignals, marketData, gexData, hour, priceHistory),
             BearishFactors(uwSignals, marketData, gexData, priceHistory))

CalculateStrength(uwSignals, confidence) ==
    NumMin(Num(1),
        NumAdd(NumAdd(AddIf(uwSignals.hasUnusualFlow, Rat(3, 10),
                            NumMul(confidence, Rat(5, 10))),
                      NumMul(NumMin(Rat(uwSignals.largeTradesCount, 5), Num(1)),
                             Rat(2, 10))),
               NumMul(NumAbs(uwSignals.sentimentScore), Rat(3, 10))))
-----------------------------------------------------------------------------
(* QPPFAlgorithm.generateSignal, simulateTradeExecution, reset *)

HistoryCap == 100

\* processOptionsFlowSignals, on the counts its filters take of the alert
\* list: all alerts, recent alerts, recent bullish / bearish alerts, recent
\* alerts with premium > 50000, and the premium total of the recent alerts.
ProcessOptionsFlowSignals(alerts) ==
    IF alerts.total = 0
    THEN [sentimentScore    |-> Num(0),
          totalAlerts       |-> 0,
          recentAlerts      |-> 0,
          bullishCount      |-> 0,
          bearishCount      |-> 0,
          avgPremium        |-> Num(0),
          largeTradesCount  |-> 0,
          hasUnusualFlow    |-> FALSE,
          dominantSentiment |-> "neutral"]
    ELSE [sentimentScore    |-> IF alerts.recent > 0
                                THEN Rat(alerts.bullish - alerts.bearish,
                                         alerts.recent)
                                ELSE Num(0),
          totalAlerts       |-> alerts.total,
          recentAlerts      |-> alerts.recent,
          bullishCount      |-> alerts.bullish,
          bearishCount      |-> alerts.bearish,
          avgPremium        |-> IF alerts.recent > 0
                                THEN Rat(alerts.premium, alerts.recent)
                                ELSE Num(0),
          largeTradesCount  |-> alerts.large,
          hasUnusualFlow    |-> alerts.recent > 2,
          dominantSentiment |->
              IF alerts.recent > 0
              THEN DominantSentiment(Rat(alerts.bullish - alerts.bearish,
                                         alerts.recent))
              ELSE "neutral"]

\* mockOptionsFlow(): three recent alerts, two bullish and one bearish, with
\* premiums 15000, 12000 and 25000.
MockOptionsFlow ==
    [total |-> 3, recent |-> 3, bullish |-> 2, bearish |-> 1, large |-> 0,
     premium |-> 52000]

\* The fallback of fetchMarketData when every provider failed (the random
\* jitter of price and volume taken at its centre / floor).
FallbackMarketData ==
    [price  |-> Rat(67197, 100),
     volume |-> Num(32000000),
     bid    |-> Rat(67196, 100),
     ask    |-> Rat(67198, 100)]

FetchMarketData(in) ==
    IF in.marketFetched THEN in.marketData ELSE FallbackMarketData

FetchFlowSignals(in) ==
    ProcessOptionsFlowSignals(IF in.flowFetched THEN in.alerts
                              ELSE MockOptionsFlow)

ComputeGex(in) == IF in.gexThrows THEN NULL ELSE in.gexData

LastN(h, n) == SubSeq(h, IF Len(h) > n THEN Len(h) - n + 1 ELSE 1, Len(h))

\* Variant of RecordObservation that evicts the newest entries instead of the
\* oldest; C20 fails on it.
RecordObservation_KeepOldest(st, marketData) ==
    IF Len(st.priceHistory) + 1 > HistoryCap
    THEN st
    ELSE [st EXCEPT
            !.priceHistory  = Append(@, marketData.price),
            !.volumeHistory = Append(@, marketData.volume)]

RecordObservation(st, marketData) ==
    IF Len(st.priceHistory) + 1 > HistoryCap
    THEN [st EXCEPT
            !.priceHistory  = LastN(Append(@, marketData.price), HistoryCap),
            !.volumeHistory = LastN(Append(@, marketData.volume), HistoryCap)]
    ELSE [st EXCEPT
            !.priceHistory  = Append(@, marketData.price),
            !.volumeHistory = Append(@, marketData.volume)]

ScoredSignal(uwSignals, marketData, gexData, hour, priceHistory) ==
    [direction  |-> CalculateDirection(uwSignals, marketData, gexData, hour,
                                       priceHistory),
     confidence |-> CalculateConfidence(uwSignals, marketData, gexData),
     strength   |-> CalculateStrength(
                        uwSignals,
                        CalculateConfidence(uwSignals, marketData, gexData)),
     sentiment  |-> uwSignals.dominantSentiment,
     marketData |-> marketData,
     uwSignals  |-> uwSignals,
     gexData    |-> gexData]

FallbackSignal(marketData) ==
    [direction  |-> "FLAT",
     confidence |-> Num(0),
     strength   |-> Num(0),
     sentiment  |-> "neutral",
     marketData |-> marketData,
     uwSignals  |-> ProcessOptionsFlowSignals(
                        [total |-> 0, recent |-> 0, bullish |-> 0,
                         bearish |-> 0, large |-> 0, premium |-> 0]),
     gexData    |-> NULL]

\* One generateSignal call on the fetch results and failures of in.  An
\* error thrown inside the try block ends in the catch block, before or
\* after the histories were updated.
GenerateSignal(in) ==
    /\ cycles' = cycles + 1
    /\ UNCHANGED symbol
    /\ \E marketData \in {FetchMarketData(in)},
          uwSignals \in {FetchFlowSignals(in)} :
          IF in.throws = "beforeHistory"
          THEN /\ result' = FallbackSignal(marketData)
               /\ UNCHANGED <<state, observed>>
          ELSE /\ state' = RecordObservation(state, marketData)
               /\ observed' = Append(observed,
                                     [price  |-> marketData.price,
                                      volume |-> marketData.volume])
               /\ result' =
                    IF in.throws = "afterHistory"
                    THEN FallbackSignal(marketData)
                    ELSE ScoredSignal(uwSignals, marketData, ComputeGex(in),
                                      in.hour, state'.priceHistory)

SimulateTradeExecution(st, signal) ==
    IF signal.direction = "FLAT" \/ NumLess(signal.confidence, Rat(6, 10))
    THEN st
    ELSE [st EXCEPT
            !.positionSize =
                IF signal.direction = "LONG"
                THEN NumFloor(NumMul(Num(100), signal.confidence))
                ELSE IF signal.direction = "SHORT"
                THEN NumNeg(NumFloor(NumMul(Num(100), signal.confidence)))
                ELSE @,
            !.entryPrice = signal.marketData.price,
            !.entryTime = [date |-> "now"],
            !.tradesExecuted = @ + 1,
            !.isActive = TRUE]
-----------------------------------------------------------------------------
(* Inputs of the direct generateSignal calls *)

\* (recent, bullish, bearish) counts: sentiment scores 0, +-1/5, +-1/3,
\* +-2/5, +-1/2 and +-1, ties and one-sided flows.
AlertCounts ==
    { <<0, 0, 0>>, <<3, 1, 1>>, <<3, 2, 1>>, <<3, 1, 2>>, <<5, 2, 0>>,
      <<5, 0, 2>>, <<5, 3, 2>>, <<5, 2, 3>>, <<6, 3, 0>>, <<6, 0, 3>>,
      <<6, 6, 0>>, <<6, 0, 6>>, <<6, 2, 2>> }

AlertLists ==
    { [total   |-> IF busy THEN 31 ELSE c[1],
       recent  |-> c[1],
       bullish |-> c[2],
       bearish |-> c[3],
       large   |-> IF c[1] >= 3 THEN large ELSE 0,
       premium |-> c[1] * (IF busy THEN 20000 ELSE 10000)] :
      c \in AlertCounts, large \in {0, 3}, busy \in BOOLEAN }

MarketDatas ==
    { [price |-> pr, volume |-> v, bid |-> NumSub(pr, half),
       ask |-> NumAdd(pr, half)] :
      pr \in {Num(100), Num(104)},
      v \in {Num(500000), Num(5000000), Num(32000000)},
      half \in {Num(0), Rat(1, 100)} }

GexDatas ==
    { NULL,
      [zeroGammaLevel |-> NULL, totalGEX |-> Num(1), callGEX |-> Num(1),
       putGEX |-> Num(-1)],
      [zeroGammaLevel |-> Num(100), totalGEX |-> Num(-1), callGEX |-> Num(2),
       putGEX |-> Num(-1)],
      [zeroGammaLevel |-> Num(102), totalGEX |-> Num(1), callGEX |-> Num(1),
       putGEX |-> Num(-2)] }

Throws == {"none", "beforeHistory", "afterHistory"}

SignalCalls ==
    { [marketFetched |-> TRUE, marketData |-> md, flowFetched |-> TRUE,
       alerts |-> a, gexData |-> g, gexThrows |-> FALSE, throws |-> "none",
       hour |-> h] :
      md \in MarketDatas, a \in AlertLists, g \in GexDatas, h \in {10, 15} }
    \cup
    { [marketFetched |-> mf, marketData |-> md, flowFetched |-> ff,
       alerts |-> a, gexData |-> g, gexThrows |-> gt, throws |-> t,
       hour |-> 15] :
      mf \in BOOLEAN, ff \in BOOLEAN, gt \in BOOLEAN, t \in Throws,
      md \in {m \in MarketDatas : m.price = Num(100) /\ m.bid = m.ask},
      a \in {x \in AlertLists : x.recent = 6 /\ x.bullish = 2 /\ x.large = 0},
      g \in {x \in GexDatas : x # NULL /\ x.zeroGammaLevel = Num(102)} }

\* Histories before the call: empty, too short for a trend, rising into 100,
\* falling into 100.
SignalHistories == { <<>>, <<Num(98)>>, <<Num(99), Num(99)>>,
                     <<Num(105), Num(105)>> }

StateWith(prices) ==
    [NewState(symbol) EXCEPT
        !.priceHistory  = prices,
        !.volumeHistory = [i \in DOMAIN prices |-> Num(5000000)]]

ObservedOf(st) ==
    [i \in DOMAIN st.priceHistory |->
        [price |-> st.priceHistory[i], volume |-> st.volumeHistory[i]]]

InitSignal ==
    /\ params = DefaultParams
    /\ call \in SignalCalls
    /\ result = NULL
    /\ RouteIdle
    /\ LoopIdle
    /\ symbol = "SPY"
    /\ \E h \in SignalHistories : state = StateWith(h)
    /\ observed = ObservedOf(state)
    /\ cycles = 0

GenerateSignalCall ==
    /\ result = NULL
    /\ GenerateSignal(call)
    /\ UNCHANGED <<params, call>>
    /\ UNCHANGED <<routeVars, loopVars>>

NextSignal == GenerateSignalCall

SpecSignal == InitSignal /\ [][NextSignal]_vars
-----------------------------------------------------------------------------
(* Claims about QPPFAlgorithm.generateSignal, checked under SpecSignal *)

Generated == result # NULL /\ cycles > 0

Scored == Generated /\ call.throws = "none"

CallBullish ==
    BullishFactors(FetchFlowSignals(call), FetchMarketData(call),
                   ComputeGex(call), call.hour, state.priceHistory)

CallBearish ==
    BearishFactors(FetchFlowSignals(call), FetchMarketData(call),
                   ComputeGex(call), state.priceHistory)

\* C13: whenever sentimentScore > 0.4 the direction is LONG and whenever
\* sentimentScore < -0.4 it is SHORT, whatever the votes of the other factors.
C13_StrongSentimentOverride ==
    Scored =>
        /\ NumGreater(result.uwSignals.sentimentScore, Rat(4, 10))
               => result.direction = "LONG"
        /\ NumLess(result.uwSignals.sentimentScore, Rat(-4, 10))
               => result.direction = "SHORT"

C13_Witness ==
    /\ Scored
    /\ NumGreater(result.uwSignals.sentimentScore, Rat(4, 10))
    /\ CallBearish >= 2 /\ CallBearish > CallBullish
    /\ result.direction = "LONG"

InVoteTier ==
    /\ NumGeq(result.uwSignals.sentimentScore, Rat(-4, 10))
    /\ NumLeq(result.uwSignals.sentimentScore, Rat(4, 10))

\* C14: in the vote tier the direction is LONG only with at least 2 bullish
\* votes and more bullish than bearish votes, SHORT only with at least 2
\* bearish votes and more bearish than bullish votes, FLAT otherwise; it is
\* FLAT on every tie and whenever the leading side has fewer than 2 votes.
C14_VoteTier ==
    Scored /\ InVoteTier =>
        /\ result.direction = "LONG"
               <=> CallBullish >= 2 /\ CallBullish > CallBearish
        /\ result.direction = "SHORT"
               <=> CallBearish >= 2 /\ CallBearish > CallBullish
        /\ result.direction \in {"LONG", "SHORT", "FLAT"}
        /\ CallBullish = CallBearish => result.direction = "FLAT"
        /\ CallBullish < 2 /\ CallBearish < 2 => result.direction = "FLAT"

C14_Witness ==
    /\ Scored /\ InVoteTier
    /\ CallBullish = CallBearish /\ CallBullish >= 2
    /\ result.direction = "FLAT"

ClaimedBoosts ==
    AddIf(GexAligned(result.marketData, result.gexData), Rat(5, 100),
    AddIf(FarFromZGL(result.marketData, result.gexData), Rat(1, 10),
    AddIf(result.uwSignals.recentAlerts > 5, Rat(1, 10),
    AddIf(result.uwSignals.largeTradesCount > 2, Rat(15, 100),
    SentimentBoost(result.uwSignals,
    AddIf(result.uwSignals.hasUnusualFlow, Rat(3, 10), Rat(5, 10)))))))

\* C15 (as claimed): confidence = min(0.95, p * (0.5 + all applicable
\* boosts)) with p = 0.8 when volume < 1,000,000 and 1 otherwise.
C15_PenaltyScalesAllBoosts ==
    Scored =>
        result.confidence =
            NumMin(Rat(95, 100),
                   TimesIf(LowVolume(result.marketData), Rat(8, 10),
                           ClaimedBoosts))

\* C16: every signal generateSignal returns, the error-fallback signal
\* included, has confidence in [0, 0.95] and strength in [0, 1].
C16_ConfidenceStrengthBounds ==
    Generated =>
        /\ NumLeq(Num(0), result.confidence)
        /\ NumLeq(result.confidence, Rat(95, 100))
        /\ NumLeq(Num(0), result.strength)
        /\ NumLeq(result.strength, Num(1))

C16_Witness ==
    /\ Scored
    /\ result.confidence = Rat(95, 100)
    /\ NumGreater(CalculateConfidence_NoCap(result.uwSignals, result.marketData,
                                            result.gexData),
                  Rat(95, 100))
    /\ result.strength = Num(1)

CycleFailed ==
    \/ ~call.marketFetched
    \/ ~call.flowFetched
    \/ call.throws # "none"

\* C19 (as claimed): every call returns a signal; when any data fetch or
\* computation of the cycle fails the signal is FLAT with confidence 0 and
\* strength 0; when only the GEX computation fails it is a scored signal
\* without GEX data.
C19_FailureGivesFlatSignal ==
    cycles > 0 =>
        /\ result # NULL
        /\ CycleFailed
               => /\ result.direction = "FLAT"
                  /\ result.confidence = Num(0)
                  /\ result.strength = Num(0)
        /\ ~CycleFailed /\ call.gexThrows
               => /\ result.gexData = NULL
                  /\ result.confidence =
                         CalculateConfidence(result.uwSignals,
                                             result.marketData, NULL)
-----------------------------------------------------------------------------
(* Sequences of generateSignal, simulateTradeExecution and reset calls *)

MaxCycles == 3

MaxTrades == 2

\* Histories the algorithm holds after 0, HistoryCap - 1 and HistoryCap
\* cycles that observed the prices 1, 2, 3, ...
Ramp(n) == [i \in 1..n |-> Num(i)]

HistoryCalls ==
    { [marketFetched |-> TRUE, marketData |-> md, flowFetched |-> TRUE,
       alerts |-> [total |-> 6, recent |-> 6, bullish |-> 6, bearish |-> 0,
                   large |-> 0, premium |-> 60000],
       gexData |-> NULL, gexThrows |-> FALSE, throws |-> t, hour |-> 15] :
      md \in {m \in MarketDatas :
                 m.bid = m.ask /\ m.volume \in {Num(500000), Num(32000000)}},
      t \in Throws }

InitHistory ==
    /\ params = DefaultParams
    /\ call = NULL
    /\ result = NULL
    /\ RouteIdle
    /\ LoopIdle
    /\ symbol \in Symbols
    /\ \E n \in {0, HistoryCap - 1, HistoryCap} : state = StateWith(Ramp(n))
    /\ observed = ObservedOf(state)
    /\ cycles = 0

GenerateSignalCycle ==
    /\ cycles < MaxCycles
    /\ \E in \in HistoryCalls :
          /\ GenerateSignal(in)
          /\ call' = in
    /\ UNCHANGED params
    /\ UNCHANGED <<routeVars, loopVars>>

SimulateTradeExecutionCall ==
    /\ result # NULL
    /\ state.tradesExecuted < MaxTrades
    /\ state' = SimulateTradeExecution(state, result)
    /\ UNCHANGED <<params, call, result, symbol, observed, cycles>>
    /\ UNCHANGED <<routeVars, loopVars>>

ResetCall ==
    /\ state' = Reset
    /\ observed' = <<>>
    /\ UNCHANGED <<params, call, result, symbol, cycles>>
    /\ UNCHANGED <<routeVars, loopVars>>

NextHistory ==
    \/ GenerateSignalCycle
    \/ SimulateTradeExecutionCall
    \/ ResetCall

SpecHistory == InitHistory /\ [][NextHistory]_vars

\* C20: priceHistory and volumeHistory hold at most 100 entries, have equal
\* length, and are exactly the most recent observations in arrival order.
C20_HistoriesHoldMostRecent ==
    /\ Len(state.priceHistory) <= 100
    /\ Len(state.volumeHistory) = Len(state.priceHistory)
    /\ Len(state.priceHistory)
           = (IF Len(observed) > 100 THEN 100 ELSE Len(observed))
    /\ \A i \in DOMAIN state.priceHistory :
          /\ state.priceHistory[i]
                 = observed[Len(observed) - Len(state.priceHistory) + i].price
          /\ state.volumeHistory[i]
                 = observed[Len(observed) - Len(state.priceHistory) + i].volume

C20_Witness ==
    /\ Len(observed) > 100
    /\ Len(state.priceHistory) = 100
    /\ state.priceHistory[1] # observed[1].price
    /\ state.tradesExecuted > 0

\* ---------------------------------------------------------------------------
\* Polling loop: /start, /stop and the background generateSignals() loop.
\* loops[i] is the position of loop i: "none" (never spawned), "generating"
\* (awaiting qppfAlgorithm.generateSignal()), "sleeping" (awaiting the
\* setTimeout promise) or "done" (the while test failed and the async
\* function returned).  A slot whose loop is done can host a new loop, so
\* MaxLoops bounds the loops existing at once, not the number of /start calls.
\* ---------------------------------------------------------------------------
Slots == 1..MaxLoops

Alive(i) == loops[i] \in {"generating", "sleeping"}

\* POST /start.  The two early returns change nothing.  Otherwise the flag
\* is set and generateSignals() is called: it runs synchronously through the
\* while test (true here) up to the await of generateSignal().
\* generateSignal calls begun or completed so far; a new one begins only
\* below MaxCycles.
CyclesBegun == cycles + Cardinality({ i \in Slots : loops[i] = "generating" })

\* What the polled services answer: one market snapshot, a bullish flow,
\* and generateSignal failing before or after its history update.
LoopCalls ==
    { in \in HistoryCalls : /\ in.marketData.price = Num(100)
                            /\ in.marketData.volume = Num(500000) }

StartRoute ==
    IF ~qppfAlgorithm \/ isRunning
    THEN UNCHANGED vars
    ELSE /\ CyclesBegun < MaxCycles
         /\ isRunning' = TRUE
         /\ \E i \in Slots :
               /\ ~Alive(i)
               /\ loops' = [loops EXCEPT ![i] = "generating"]
         /\ signalOrigin' = (IF signalOrigin = "reset" THEN "none"
                             ELSE signalOrigin)
         /\ UNCHANGED <<params, call, result, qppfAlgorithm, alpacaService,
                        riskManager, latestSignal, pc, account, positions,
                        riskAssessment, gate, tradeSignal, orders, response,
                        requests, algoVars, stale>>

\* POST /stop.
StopRoute ==
    /\ isRunning' = FALSE
    /\ UNCHANGED <<params, call, result, routeVars, algoVars, loops, stale>>

\* POST /execute-trade: the simulated execution of the latest signal.
ExecuteTradeRoute ==
    /\ qppfAlgorithm
    /\ latestSignal # NULL
    /\ state.tradesExecuted < MaxTrades
    /\ state' = SimulateTradeExecution(state, latestSignal)
    /\ UNCHANGED <<params, call, result, routeVars, symbol, observed, cycles,
                   loopVars>>

\* generateSignal() resolved (it never rejects): the loop assigns
\* latestSignal and starts the 30 s sleep.  The history update and the
\* return of generateSignal run without yielding, on the instance the call
\* was made on: a replaced instance keeps its own state, of which only the
\* returned signal is seen.
LoopPublish(i) ==
    /\ loops[i] = "generating"
    /\ loops' = [loops EXCEPT ![i] = "sleeping"]
    /\ stale' = stale \ {i}
    /\ UNCHANGED <<params, qppfAlgorithm, alpacaService, riskManager, pc,
                   account, positions, riskAssessment, gate, tradeSignal,
                   orders, response, requests, isRunning>>
    /\ \E in \in LoopCalls :
          IF i \in stale
          THEN /\ UNCHANGED <<call, result, algoVars>>
               /\ signalOrigin' = "orphaned"
               /\ \E marketData \in {FetchMarketData(in)} :
                     latestSignal' =
                        IF in.throws = "none"
                        THEN ScoredSignal(FetchFlowSignals(in), marketData,
                                          ComputeGex(in), in.hour,
                                          <<marketData.price>>)
                        ELSE FallbackSignal(marketData)
          ELSE /\ call' = in
               /\ GenerateSignal(in)
               /\ latestSignal' = result'
               /\ signalOrigin' = "current"

LoopWake_IgnoresFlag(i) ==
    /\ loops[i] = "sleeping"
    /\ IF qppfAlgorithm
       THEN /\ CyclesBegun < MaxCycles
            /\ loops' = [loops EXCEPT ![i] = "generating"]
       ELSE loops' = [loops EXCEPT ![i] = "done"]
    /\ UNCHANGED <<params, call, result, routeVars, algoVars, isRunning,
                   stale>>

\* The sleep is over: the while test is evaluated again and either the next
\* generateSignal() is awaited or the async function returns.
LoopWake(i) ==
    /\ loops[i] = "sleeping"
    /\ IF isRunning /\ qppfAlgorithm
       THEN /\ CyclesBegun < MaxCycles
            /\ loops' = [loops EXCEPT ![i] = "generating"]
       ELSE loops' = [loops EXCEPT ![i] = "done"]
    /\ UNCHANGED <<params, call, result, routeVars, algoVars, isRunning,
                   stale>>

InitLoop ==
    /\ params = DefaultParams
    /\ call = NULL
    /\ result = NULL
    /\ RouteIdle
    /\ AlgorithmIdle
    /\ LoopIdle

NextLoop ==
    \/ InitializeRoute
    \/ ResetRoute
    \/ StartRoute
    \/ StopRoute
    \/ ExecuteTradeRoute
    \/ \E i \in Slots : LoopPublish(i)
    \/ \E i \in Slots : LoopWake(i)

SpecLoop == InitLoop /\ [][NextLoop]_vars

\* The event loop resolves every pending promise: a fetch settles (axios
\* has a timeout) and a timer fires.
LoopFairness ==
    \A i \in Slots : WF_vars(LoopPublish(i)) /\ WF_vars(LoopWake(i))

SpecLoopFair == SpecLoop /\ LoopFairness

\* C17: whatever the sequence of /start, /stop, /reset and /initialize, at
\* most one polling loop is alive at any time.
C17_AtMostOneLoopAlive ==
    Cardinality({ i \in Slots : Alive(i) }) <= 1

\* C18: stopping is cooperative.  A loop begins a cycle only while the flag
\* is set; a cycle in flight is never aborted, it ends by publishing its
\* signal even when the flag was cleared meanwhile; and once the flag stays
\* cleared every loop eventually terminates.
C18_StopIsCooperative ==
    /\ [][\A i \in Slots :
             (loops'[i] = "generating" /\ loops[i] # "generating")
                 => isRunning']_vars
    /\ [][\A i \in Slots :
             (loops[i] = "generating" /\ loops'[i] # "generating")
                 => (loops'[i] = "sleeping" /\ latestSignal' # NULL)]_vars
    /\ (<>[](~isRunning)) => <>[](\A i \in Slots : ~Alive(i))

C18_Witness ==
    /\ ~isRunning
    /\ latestSignal # NULL
    /\ \E i \in Slots : loops[i] = "done"

-----------------------------------------------------------------------------
(* Claims about reset and initialisation, checked under SpecLoop *)

\* C21: an explicit reset returns the algorithm state to its initial values
\* whatever preceded it (positionSize 0, entryPrice 0, no entryTime, empty
\* histories, tradesExecuted 0, isActive false, symbol unchanged), and the
\* /reset route also clears the latest signal and the running flag.
C21_ResetRestoresInitialState ==
    [][ResetRoute =>
          /\ state'.symbol = state.symbol
          /\ state'.positionSize = Num(0)
          /\ state'.entryPrice = Num(0)
          /\ state'.entryTime = NULL
          /\ state'.priceHistory = <<>>
          /\ state'.volumeHistory = <<>>
          /\ state'.tradesExecuted = 0
          /\ state'.isActive = FALSE
          /\ latestSignal' = NULL
          /\ isRunning' = FALSE]_vars

\* A signal was generated and published, and /reset has cleared it since.
C21_Witness ==
    /\ result # NULL
    /\ latestSignal = NULL
    /\ symbol = "QQQ"
    /\ state = NewState("QQQ")
    /\ ~isRunning

-----------------------------------------------------------------------------
(* GEXCalculator *)

ContractSize == 100

NumLevels == 40

\* JavaScript truthiness of a number: neither 0 nor NaN.
TruthyNumber(x) == ~IsNaN(x) /\ x # Num(0)

\* The contracts the two loops over the contract list do not skip.
Counted(contract) ==
    /\ TruthyNumber(contract.strike)
    /\ contract.expiry
    /\ TruthyNumber(contract.openInterest)

\* calculateUnitGamma at the i-th level of the spot grid (the current spot
\* is level NumLevels / 2).  The Black-Scholes value is an input: contract.curve
\* gives it as lo below level curve.k and hi from there on, both >= 0.
CalculateUnitGamma(spot, contract, i) ==
    IF NumLeq(spot, Num(0)) THEN Num(0)
    ELSE IF i < contract.curve.k THEN contract.curve.lo
    ELSE contract.curve.hi

CalculateOptionGEX(unitGamma, contracts, spot, isCall) ==
    IF isCall
    THEN NumMul(NumMul(NumMul(NumMul(NumMul(unitGamma, contracts),
                                     Num(ContractSize)), spot), spot),
                Rat(1, 100))
    ELSE NumNeg(NumMul(NumMul(NumMul(NumMul(NumMul(unitGamma, contracts),
                                            Num(ContractSize)), spot), spot),
                       Rat(1, 100)))

IsCall(contract) == contract.type = "call"

\* The GEX of one contract in the loop of calculateGEX: a unit gamma the
\* contract carries is used as it is, otherwise it is calculated at the
\* current spot.
ContractGEX(contract, currentSpot) ==
    CalculateOptionGEX(
        IF TruthyNumber(contract.unitGamma)
        THEN contract.unitGamma
        ELSE CalculateUnitGamma(currentSpot, contract, NumLevels \div 2),
        contract.openInterest, currentSpot, IsCall(contract))

RECURSIVE SumGEX(_, _, _)
\* Sum of the GEX of the counted contracts of one type (wanted = "call" or
\* "put") or of every type (wanted = "any"), in list order.
SumGEX(contracts, currentSpot, wanted) ==
    IF contracts = <<>> THEN Num(0)
    ELSE NumAdd(
            SumGEX(SubSeq(contracts, 1, Len(contracts) - 1), currentSpot,
                   wanted),
            IF Counted(contracts[Len(contracts)])
               /\ wanted = (IF IsCall(contracts[Len(contracts)])
                            THEN "call" ELSE "put")
            THEN ContractGEX(contracts[Len(contracts)], currentSpot)
            ELSE Num(0))

SpotLevel(currentSpot, i) ==
    NumAdd(NumMul(currentSpot, Rat(8, 10)),
           NumDiv(NumMul(NumSub(NumMul(currentSpot, Rat(12, 10)),
                                NumMul(currentSpot, Rat(8, 10))),
                         Num(i)),
                  Num(NumLevels)))

RECURSIVE LevelGEX(_, _, _)
\* totalGEXAtLevel of level i: every counted contract's GEX with its unit
\* gamma recalculated at that level.
LevelGEX(contracts, currentSpot, i) ==
    IF contracts = <<>> THEN Num(0)
    ELSE NumAdd(
            LevelGEX(SubSeq(contracts, 1, Len(contracts) - 1), currentSpot, i),
            IF Counted(contracts[Len(contracts)])
            THEN CalculateOptionGEX(
                     CalculateUnitGamma(SpotLevel(currentSpot, i),
                                        contracts[Len(contracts)], i),
                     contracts[Len(contracts)].openInterest,
                     SpotLevel(currentSpot, i),
                     IsCall(contracts[Len(contracts)]))
            ELSE Num(0))

\* calculateGEXProfile: levels 0 .. NumLevels are entries 1 .. NumLevels + 1.
CalculateGEXProfile(contracts, currentSpot) ==
    [j \in 1..(NumLevels + 1) |->
        [spotLevel |-> SpotLevel(currentSpot, j - 1),
         totalGEX  |-> LevelGEX(contracts, currentSpot, j - 1)]]

SignChange(current, next) ==
    \/ NumGreater(current.totalGEX, Num(0)) /\ NumLess(next.totalGEX, Num(0))
    \/ NumLess(current.totalGEX, Num(0)) /\ NumGreater(next.totalGEX, Num(0))

Interpolate(current, next) ==
    NumSub(next.spotLevel,
           NumDiv(NumMul(NumSub(next.spotLevel, current.spotLevel),
                         next.totalGEX),
                  NumSub(next.totalGEX, current.totalGEX)))

RECURSIVE FindZeroGammaLevelFrom(_, _)
FindZeroGammaLevelFrom(profile, i) ==
    IF i > Len(profile) - 1 THEN NULL
    ELSE IF SignChange(profile[i], profile[i + 1])
    THEN Interpolate(profile[i], profile[i + 1])
    ELSE FindZeroGammaLevelFrom(profile, i + 1)

\* Variant of findZeroGammaLevel that answers the upper sample of the
\* bracketing pair; C22 fails on it.
FindZeroGammaLevel_UpperSample(profile) ==
    IF \E i \in 1..(Len(profile) - 1) : SignChange(profile[i], profile[i + 1])
    THEN profile[(CHOOSE i \in 1..(Len(profile) - 1) :
                     SignChange(profile[i], profile[i + 1])) + 1].spotLevel
    ELSE NULL

FindZeroGammaLevel(profile) == FindZeroGammaLevelFrom(profile, 1)

RECURSIVE SortedStrikes(_)
\* The strikes of a set in ascending order.
SortedStrikes(strikes) ==
    IF strikes = {} THEN <<>>
    ELSE LET least == CHOOSE x \in strikes :
                         \A y \in strikes : NumLeq(x, y)
         IN  <<least>> \o SortedStrikes(strikes \ {least})

WithStrike(contracts, strike) ==
    SelectSeq(contracts, LAMBDA c : c.strike = strike)

\* perStrikeGEX: one entry per strike of a counted contract.
PerStrikeGEX(contracts, currentSpot) ==
    LET strikes == { contracts[j].strike :
                       j \in { n \in DOMAIN contracts : Counted(contracts[n]) } }
        Entry(strike) ==
            [strike  |-> strike,
             gex     |-> NumAdd(SumGEX(WithStrike(contracts, strike),
                                       currentSpot, "call"),
                                SumGEX(WithStrike(contracts, strike),
                                       currentSpot, "put")),
             callGEX |-> SumGEX(WithStrike(contracts, strike), currentSpot,
                                "call"),
             putGEX  |-> SumGEX(WithStrike(contracts, strike), currentSpot,
                                "put")]
        sorted == SortedStrikes(strikes)
    IN  [j \in DOMAIN sorted |-> Entry(sorted[j])]

Billion == 1000000000

CalculateGEX(contracts, currentSpot) ==
    [totalGEX       |-> NumDiv(NumAdd(SumGEX(contracts, currentSpot, "call"),
                                      SumGEX(contracts, currentSpot, "put")),
                               Num(Billion)),
     callGEX        |-> NumDiv(SumGEX(contracts, currentSpot, "call"),
                               Num(Billion)),
     putGEX         |-> NumDiv(SumGEX(contracts, currentSpot, "put"),
                               Num(Billion)),
     zeroGammaLevel |-> FindZeroGammaLevel(
                            CalculateGEXProfile(contracts, currentSpot)),
     currentSpot    |-> currentSpot,
     perStrikeGEX   |-> PerStrikeGEX(contracts, currentSpot),
     profile        |-> [j \in 1..(NumLevels + 1) |->
                            [spotLevel |-> SpotLevel(currentSpot, j - 1),
                             totalGEX  |-> NumDiv(LevelGEX(contracts,
                                                           currentSpot, j - 1),
                                                  Num(Billion))]]]

-----------------------------------------------------------------------------
(* Direct calls of GEXCalculator.calculateGEX *)

MaxContracts == 2

\* Unit-gamma curves in thousandths: flat, rising and falling across the grid.
Curves ==
    { [k |-> 0,  lo |-> Rat(2, 1000), hi |-> Rat(2, 1000)],
      [k |-> 20, lo |-> Rat(1, 1000), hi |-> Rat(3, 1000)],
      [k |-> 10, lo |-> Rat(3, 1000), hi |-> Rat(2, 1000)],
      [k |-> 11, lo |-> Rat(2, 1000), hi |-> Rat(3, 1000)],
      [k |-> 30, lo |-> Rat(3, 1000), hi |-> Rat(1, 1000)] }

FlatCurve == [k |-> 0, lo |-> Rat(2, 1000), hi |-> Rat(2, 1000)]

Contract(t, st, e, oi, ug, cv) ==
    [type |-> t, strike |-> st, expiry |-> e, openInterest |-> oi,
     unitGamma |-> ug, curve |-> cv]

\* Well-formed contracts, and contracts with a missing strike, expiry or
\* open interest, a negative open interest, or a unit gamma of their own.
Contracts ==
    { Contract(t, Num(100), TRUE, Num(1000), Num(0), cv) :
      t \in {"call", "put"}, cv \in Curves }
    \cup
    { Contract(t, Num(105), TRUE, Num(1000), Num(0), FlatCurve) :
      t \in {"call", "put"} }
    \cup
    { Contract("call", Num(0), TRUE, Num(1000), Num(0), FlatCurve),
      Contract("put", Num(100), FALSE, Num(1000), Num(0), FlatCurve),
      Contract("call", Num(100), TRUE, Num(0), Num(0), FlatCurve),
      Contract("call", Num(100), TRUE, Num(-1000), Num(0), FlatCurve),
      Contract("put", Num(100), TRUE, Num(-1000), Num(0), FlatCurve),
      Contract("call", Num(100), TRUE, Num(1000), Rat(5, 1000), FlatCurve),
      Contract("put", Num(100), TRUE, Num(1000), Rat(5, 1000), FlatCurve) }

RECURSIVE ContractLists(_)
ContractLists(n) ==
    IF n = 0 THEN {<<>>}
    ELSE ContractLists(n - 1)
         \cup { Append(l, c) : l \in { x \in ContractLists(n - 1) :
                                         Len(x) = n - 1 },
                               c \in Contracts }

GexCalls ==
    { [contracts |-> l, currentSpot |-> sp] :
      l \in ContractLists(MaxContracts), sp \in {Num(100), Num(0)} }

InitGex ==
    /\ params = DefaultParams
    /\ call \in GexCalls
    /\ result = NULL
    /\ RouteIdle
    /\ AlgorithmIdle
    /\ LoopIdle

CalculateGEXCall ==
    /\ result = NULL
    /\ result' = CalculateGEX(call.contracts, call.currentSpot)
    /\ UNCHANGED <<params, call, routeVars, algoVars, loopVars>>

NextGex == CalculateGEXCall

SpecGex == InitGex /\ [][NextGex]_vars

-----------------------------------------------------------------------------
(* Claims about GEXCalculator.calculateGEX, checked under SpecGex *)

GexComputed == result # NULL

OppositeSigns(a, b) == IsFinite(a) /\ IsFinite(b) /\ Sgn(a.n) * Sgn(b.n) = -1

\* Indexes i of the profile whose samples i and i + 1 have opposite signs.
BracketingPairs(profile) ==
    { i \in 1..(Len(profile) - 1) :
        OppositeSigns(profile[i].totalGEX, profile[i + 1].totalGEX) }

\* Value at spot x of the line through the samples a and b.
LineAt(a, b, x) ==
    NumAdd(a.totalGEX,
           NumMul(NumDiv(NumSub(x, a.spotLevel),
                         NumSub(b.spotLevel, a.spotLevel)),
                  NumSub(b.totalGEX, a.totalGEX)))

ZeroCrossingOf(profile, zgl) ==
    LET i == CHOOSE i \in BracketingPairs(profile) :
                 \A j \in BracketingPairs(profile) : i <= j
    IN  /\ zgl # NULL
        /\ NumLess(profile[i].spotLevel, zgl)
        /\ NumLess(zgl, profile[i + 1].spotLevel)
        /\ LineAt(profile[i], profile[i + 1], zgl) = Num(0)

\* C22: the Zero Gamma Level is the linear-interpolation zero crossing of
\* the first adjacent pair of profile samples with total GEX of opposite
\* signs, it lies strictly between the spot levels of that pair, and none is
\* returned when no adjacent pair changes sign.
C22_ZeroGammaLevelInterpolates ==
    GexComputed =>
        IF BracketingPairs(CalculateGEXProfile(call.contracts,
                                               call.currentSpot)) = {}
        THEN result.zeroGammaLevel = NULL
        ELSE ZeroCrossingOf(CalculateGEXProfile(call.contracts,
                                                call.currentSpot),
                            result.zeroGammaLevel)

\* Two contracts whose profile changes sign, away from its first sample.
C22_Witness ==
    /\ GexComputed
    /\ Len(call.contracts) = 2
    /\ result.zeroGammaLevel # NULL
    /\ 1 \notin BracketingPairs(result.profile)

HasType(contracts, isCall) ==
    \E j \in DOMAIN contracts :
        Counted(contracts[j]) /\ IsCall(contracts[j]) = isCall

-----------------------------------------------------------------------------
(* Claims about RiskManager.assessTrade as a function, checked under SpecRisk *)

\* The assessment of the same call made when the local clock reads now.
AssessedAt(now) ==
    AssessTrade(params, call.signal, call.uwSignals, call.account,
                call.positions, call.currentPrice, now)

\* C24: two assessTrade calls given the same signal, flow statistics,
\* account, positions, current price and risk parameters return the same
\* positionSize, riskScore and recommendation, and the call changes no
\* RiskManager state.
C24_AssessTradeIsPure ==
    Assessed =>
        /\ params = DefaultParams
        /\ \A now \in Clocks :
              /\ AssessedAt(now).positionSize = result.positionSize
              /\ AssessedAt(now).riskScore = result.riskScore
              /\ AssessedAt(now).recommendation = result.recommendation

\* The size assessTrade hands to checkPortfolioLimits for the call.
CallAdjustedSize ==
    NumMul(CalculateBasePositionSize(params, call.account.portfolioValue,
                                     call.signal.confidence, call.currentPrice),
           RiskMultiplier(call.signal, call.uwSignals))

\* None of the three portfolio limits binds on the call.
NoLimitBinds ==
    /\ Len(call.positions) < params.maxPositionCount
    /\ NumLeq(NumMul(CallAdjustedSize, call.currentPrice),
              call.account.buyingPower)
    /\ NumLeq(NumAdd(CalculateCurrentPortfolioRisk(call.account, call.positions),
                     NumDiv(NumMul(CallAdjustedSize, call.currentPrice),
                            call.account.portfolioValue)),
              params.maxPortfolioRisk)

\* C26: when no portfolio limit binds, the confidence is at least
\* minConfidence and the risk score is at most maxRiskScore, the
\* recommendation is execute; reduce occurs only when a portfolio limit
\* shrank the size.
C26_ReduceOnlyWhenLimited ==
    (/\ Assessed
     /\ NoLimitBinds
     /\ NumLeq(params.minConfidence, call.signal.confidence)
     /\ NumLeq(result.riskScore, params.maxRiskScore))
        => result.recommendation = "execute"

-----------------------------------------------------------------------------
(* Claims about the live-trading route and the signal direction, checked
   under Spec *)

\* The step of /execute-alpaca-trade that passes the shouldExecuteTrade gate
\* and calls alpacaService.executeTrade with the trade signal it built.
CallsExecuteTrade == ExecuteAlpacaTradeAssess /\ gate' = "true"

\* C25: the live-trading route hands no order to the broker when the latest
\* signal is FLAT: a LONG signal becomes a long order, a SHORT signal a short
\* order, and nothing else is ordered.
C25_NoOrderForFlatSignal ==
    [][CallsExecuteTrade =>
          \/ latestSignal.direction = "LONG" /\ tradeSignal'.direction = "long"
          \/ latestSignal.direction = "SHORT" /\ tradeSignal'.direction = "short"]_vars

-----------------------------------------------------------------------------
(* Claims about /reset, /initialize and the polling loop, checked under
   SpecLoop *)

\* C27: from a successful /reset until a later /signal or /start, the latest
\* signal stays absent and the price and volume histories stay empty,
\* whatever a polling loop does meanwhile, a cycle in flight included.
C27_ResetStaysCleared ==
    [][(signalOrigin = "reset" /\ ~StartRoute /\ ~SignalRoute)
          => /\ latestSignal' = NULL
             /\ state'.priceHistory = <<>>
             /\ state'.volumeHistory = <<>>]_vars

\* C29: after a successful /initialize no simulated trade is executed until
\* the new instance has generated a signal: the signal retained from before
\* is never traded.
C29_NoTradeOnRetainedSignal ==
    [][ExecuteTradeRoute => signalOrigin # "retained"]_vars

\* C28: an /initialize request that fails (no Unusual Whales key, a failed
\* Alpaca connection test, or an exception) leaves the global algorithm,
\* Alpaca service and risk manager exactly as they were.
C28_FailedInitializeChangesNothing ==
    [][\A cfg \in Configs :
          (InitializeRequest(cfg) /\ InitializeResponse(cfg) # 200)
             => UNCHANGED <<qppfAlgorithm, alpacaService, riskManager, params,
                            symbol, state>>]_vars

-----------------------------------------------------------------------------
(* EnhancedAlpacaTradingService.apiCall: one broker API call with retries *)

MaxRetries == 3

RateLimitDelay == 100

RequestLogCap == 100

Statuses == {200, 204, 400, 404, 429, 499, 500, 503}

\* What response.json() gives: a rejection, or an object whose message and
\* error fields may be missing ("" stands for a missing or empty field).
Payloads ==
    { [json |-> FALSE, message |-> "", error |-> ""] }
    \cup { [json |-> TRUE, message |-> m, error |-> e] :
           m \in {"", "rejected"}, e \in {"", "forbidden"} }

\* What one fetch does: it throws an error with a message, or it resolves
\* to a response with a status, an X-Request-ID header (0 stands for a
\* missing header) and a body.
FetchOutcomes ==
    { [throws |-> TRUE, message |-> m] : m \in {"", "fetch failed"} }
    \cup { [throws |-> FALSE, status |-> st, requestId |-> id, body |-> b] :
           st \in Statuses, id \in {0, 1, RequestLogCap + 1}, b \in Payloads }

\* Variant of BackoffDelay that grows linearly; C30 fails on it.
BackoffDelay_Linear(attempt) == RateLimitDelay * attempt

BackoffDelay(attempt) == RateLimitDelay * 2 ^ (attempt - 1)

ResponseOk(outcome) == outcome.status >= 200 /\ outcome.status <= 299

ErrorMessage(outcome) ==
    IF ~outcome.body.json
    THEN [http |-> outcome.status, statusText |-> TRUE]
    ELSE IF outcome.body.message # "" THEN [text |-> outcome.body.message]
    ELSE IF outcome.body.error # "" THEN [text |-> outcome.body.error]
    ELSE [http |-> outcome.status, statusText |-> FALSE]

\* The record both return statements of the try block build (the timestamp
\* is left out); a 4xx status takes the first, every other status the second.
ResponseRecord(outcome) ==
    [data      |-> IF ResponseOk(outcome) /\ outcome.body.json
                   THEN outcome.body ELSE NULL,
     error     |-> IF ResponseOk(outcome) THEN NULL ELSE ErrorMessage(outcome),
     requestId |-> outcome.requestId,
     status    |-> outcome.status]

\* The record returned after the loop.
ExhaustedRecord(lastError) ==
    [data      |-> NULL,
     error     |-> IF lastError # NULL /\ lastError.message # ""
                   THEN [text |-> lastError.message]
                   ELSE [text |-> "Network error after retries"],
     requestId |-> 0,
     status    |-> 0]

LogEntry(in, outcome) ==
    [requestId |-> outcome.requestId, method |-> in.method,
     status |-> outcome.status, attempt |-> in.attempt, body |-> in.hasBody]

\* Map.set keeps the position of a key that is present and appends a new one.
MapSet(log, entry) ==
    IF \E j \in DOMAIN log : log[j].requestId = entry.requestId
    THEN [j \in DOMAIN log |->
             IF log[j].requestId = entry.requestId THEN entry ELSE log[j]]
    ELSE Append(log, entry)

LogRequest(in, outcome) ==
    IF outcome.requestId = 0 THEN in.requestLog
    ELSE IF Len(MapSet(in.requestLog, LogEntry(in, outcome))) > RequestLogCap
    THEN Tail(MapSet(in.requestLog, LogEntry(in, outcome)))
    ELSE MapSet(in.requestLog, LogEntry(in, outcome))

FullRequestLog ==
    [j \in 1..RequestLogCap |->
        [requestId |-> j, method |-> "GET", status |-> 200, attempt |-> 1,
         body |-> FALSE]]

\* A call at its entry: attempt 1, nothing fetched or waited for yet.  The
\* fields outcomes and waited record what the call has done so far.
ApiCalls ==
    { [method |-> m, hasBody |-> (m = "POST"), requestLog |-> log,
       attempt |-> 1, at |-> "fetch", lastError |-> NULL,
       outcomes |-> <<>>, waited |-> <<>>] :
      m \in {"GET", "POST"}, log \in {<<>>, FullRequestLog} }

InitApi ==
    /\ params = DefaultParams
    /\ call \in ApiCalls
    /\ result = NULL
    /\ RouteIdle
    /\ AlgorithmIdle
    /\ LoopIdle

\* The backoff timer of an attempt after the first.
ApiCallSleep ==
    /\ call.at = "sleep"
    /\ call' = [call EXCEPT !.waited = Append(@, BackoffDelay(call.attempt)),
                            !.at = "fetch"]
    /\ UNCHANGED <<params, result, routeVars, algoVars, loopVars>>

\* fetch() settled, and the rest of the loop body up to the next await on a
\* timer or the return.
ApiCallFetch ==
    /\ call.at = "fetch"
    /\ \E outcome \in FetchOutcomes :
          IF outcome.throws
          THEN IF call.attempt = MaxRetries
               THEN /\ call' = [call EXCEPT
                                   !.outcomes = Append(@, outcome),
                                   !.lastError = [message |-> outcome.message],
                                   !.at = "returned"]
                    /\ result' = ExhaustedRecord([message |-> outcome.message])
               ELSE /\ call' = [call EXCEPT
                                   !.outcomes = Append(@, outcome),
                                   !.lastError = [message |-> outcome.message],
                                   !.attempt = @ + 1,
                                   !.at = "sleep"]
                    /\ UNCHANGED result
          ELSE /\ call' = [call EXCEPT
                              !.outcomes = Append(@, outcome),
                              !.requestLog = LogRequest(call, outcome),
                              !.at = "returned"]
               /\ result' = ResponseRecord(outcome)
    /\ UNCHANGED <<params, routeVars, algoVars, loopVars>>

NextApi == ApiCallSleep \/ ApiCallFetch

SpecApi == InitApi /\ [][NextApi]_vars

-----------------------------------------------------------------------------
(* Claims about apiCall, checked under SpecApi *)

====
